---- MODULE Spec2Model ----
(***************************************************************************)
(* Model of mopidy/ext.py: the extension pipeline                          *)
(*   load_extensions -> validate_extensions -> filter_enabled_extensions.  *)
(*                                                                         *)
(* The registry (pkg_resources entry points), the extension classes they   *)
(* resolve to and the raw configuration are the environment: they are      *)
(* chosen in the initial condition and never change.  Each loop iteration  *)
(* of the three functions is one action.  Spec runs the whole pipeline,    *)
(* twice; SpecLoad, SpecValidate and SpecFilter run one function each,     *)
(* over every input of that function.                                      *)
(***************************************************************************)
EXTENDS Naturals, Sequences, FiniteSets

\* ------------------------------------------------------------------ bounds

\* Largest number of entry points the registry enumerates.
MaxExt == 2

\* ------------------------------------------------------------- environment

\* Entry point names (pkg_resources entry point names are always strings).
Names == {"a", "b"}

\* Python's None: the value Extension.ext_name has when a subclass leaves it unset.
None == "<None>"

\* What an extension instance reports as ext_name.
ExtNames == Names \cup {None}

\* Outcome of importing the entry point's class and calling it.
FactoryOutcomes == {"ok", "ImportError"}

\* Outcome of entry_point.require(): DistributionNotFound is the exception the
\* code catches, VersionConflict one it does not.
RequireOutcomes == {"ok", "DistributionNotFound", "VersionConflict"}

\* Outcome of extension.validate_environment(): ExtensionError is the exception
\* the code catches, RuntimeError one it does not.
EnvironmentOutcomes == {"ok", "ExtensionError", "RuntimeError"}

\* One registered entry point together with the class it resolves to.
EntryPoints ==
    [name : Names, ext_name : ExtNames, factory : FactoryOutcomes,
     require : RequireOutcomes, env : EnvironmentOutcomes]

\* Raw values an 'enabled' key may hold.
RawValues == {"true", "false", "maybe"}

\* A config section: with or without the 'enabled' key.
Sections == {<<>>} \cup {[k \in {"enabled"} |-> v] : v \in RawValues}

\* All sequences over S of length at most n.
SeqUpTo(S, n) == UNION {[1..k -> S] : k \in 0..n}

\* Raw configurations: a section for some of the names.
RawConfigs == UNION {[D -> Sections] : D \in SUBSET Names}

VARIABLES
    registry,              \* entry points of group 'mopidy.ext', in enumeration order
    raw_config,            \* section name -> section (key -> raw value)
    pc,                    \* position of the caller in the pipeline
    i,                     \* index of the loop of the running function
    installed_extensions,  \* load_extensions' list; validate_extensions' input
    valid_extensions,      \* validate_extensions' list
    extensions,            \* filter_enabled_extensions' input
    enabled_extensions,    \* filter_enabled_extensions' lists
    enabled_names,
    disabled_names,
    exc,                   \* the exception that ended the pass, or "none"
    log,                   \* log records emitted so far
    calls,                 \* calls made on entry points and extensions so far
    next_id,               \* identity of the next object created
    run,                   \* which pass over the pipeline this is
    first                  \* outcome of the first pass

vars == <<registry, raw_config, pc, i, installed_extensions, valid_extensions,
          extensions, enabled_extensions, enabled_names, disabled_names, exc,
          log, calls, next_id, run, first>>

world == <<registry, raw_config>>

\* ---------------------------------------------------------------- helpers

\* The ext_name of every extension of a list, in order.
ExtNamesOf(exts) == [k \in 1..Len(exts) |-> exts[k].ext_name]

\* ', '.join(names): raises TypeError when an item is not a string.
JoinRaises(names) == \E k \in 1..Len(names) : names[k] = None

\* ', '.join(names) or 'none': the joined text is falsy exactly when no name is joined.
JoinOrNone(names) == IF names = <<>> THEN <<"none">> ELSE names

\* A log record; about is the entry point or extension object the call site
\* handles (0 for a summary), kept to tell the records of two extensions apart.
Record(logger, level, event, about, args) ==
    [logger |-> logger, level |-> level, event |-> event, about |-> about,
     args |-> args]

\* ------------------------------------------------------- load_extensions

\* entry_point.load(require) followed by extension_class(): the exception raised, or "ok".
EntryPointLoad(ep, require) ==
    IF require /\ ep.require # "ok" THEN ep.require
    ELSE ep.factory

\* The extension object the i-th entry point's class creates, entry_point attached.
NewExtension(k, id) ==
    [id |-> id, ext_name |-> registry[k].ext_name, entry_point |-> k]

\* LoadBegin with the list kept from the previous call (a module-level list).
LoadBeginKeepsList ==
    /\ pc = "start"
    /\ pc' = "load"
    /\ i' = 1
    /\ UNCHANGED <<world, installed_extensions, valid_extensions, extensions,
                   enabled_extensions, enabled_names, disabled_names, exc, log,
                   calls, next_id, run, first>>

\* installed_extensions = []
LoadBegin ==
    /\ pc = "start"
    /\ pc' = "load"
    /\ installed_extensions' = <<>>
    /\ i' = 1
    /\ UNCHANGED <<world, valid_extensions, extensions, enabled_extensions,
                   enabled_names, disabled_names, exc, log, calls, next_id,
                   run, first>>

\* LoadEntryPoint with a broken entry point skipped instead of raised.
LoadEntryPointSkipsBroken ==
    /\ pc = "load"
    /\ i <= Len(registry)
    /\ LET outcome == EntryPointLoad(registry[i], FALSE)
           loading == Record("mopidy.ext", "debug", "Loading entry point", i, <<registry[i].name>>)
           loaded == Record("mopidy.ext", "debug", "Loaded extension", i, <<registry[i].ext_name>>)
       IN  /\ calls' = Append(calls, <<"load", i>>)
           /\ i' = i + 1
           /\ IF outcome # "ok"
              THEN /\ log' = Append(log, loading)
                   /\ UNCHANGED <<installed_extensions, next_id>>
              ELSE /\ installed_extensions' =
                          Append(installed_extensions, NewExtension(i, next_id))
                   /\ next_id' = next_id + 1
                   /\ log' = log \o <<loading, loaded>>
    /\ UNCHANGED <<world, pc, exc, valid_extensions, extensions, enabled_extensions,
                   enabled_names, disabled_names, run, first>>

\* One iteration of "for entry_point in pkg_resources.iter_entry_points('mopidy.ext')".
LoadEntryPoint ==
    /\ pc = "load"
    /\ i <= Len(registry)
    /\ LET outcome == EntryPointLoad(registry[i], FALSE)
           loading == Record("mopidy.ext", "debug", "Loading entry point", i, <<registry[i].name>>)
           loaded == Record("mopidy.ext", "debug", "Loaded extension", i, <<registry[i].ext_name>>)
       IN  /\ calls' = Append(calls, <<"load", i>>)
           /\ IF outcome # "ok"
              THEN /\ exc' = outcome
                   /\ pc' = "raised"
                   /\ log' = Append(log, loading)
                   /\ UNCHANGED <<installed_extensions, next_id, i>>
              ELSE /\ installed_extensions' =
                          Append(installed_extensions, NewExtension(i, next_id))
                   /\ next_id' = next_id + 1
                   /\ log' = log \o <<loading, loaded>>
                   /\ i' = i + 1
                   /\ UNCHANGED <<pc, exc>>
    /\ UNCHANGED <<world, valid_extensions, extensions, enabled_extensions,
                   enabled_names, disabled_names, run, first>>

\* LoadReturn without the summary record.
LoadReturnNoSummary ==
    /\ pc = "load"
    /\ i > Len(registry)
    /\ IF JoinRaises(ExtNamesOf(installed_extensions))
       THEN exc' = "TypeError" /\ pc' = "raised"
       ELSE pc' = "loaded" /\ UNCHANGED exc
    /\ UNCHANGED <<world, i, installed_extensions, valid_extensions, extensions,
                   enabled_extensions, enabled_names, disabled_names, log, calls,
                   next_id, run, first>>

\* names = ...; logging.debug('Discovered extensions: %s', ', '.join(names)); return
LoadReturn ==
    /\ pc = "load"
    /\ i > Len(registry)
    /\ LET names == ExtNamesOf(installed_extensions)
       IN  IF JoinRaises(names)
           THEN /\ exc' = "TypeError"
                /\ pc' = "raised"
                /\ UNCHANGED log
           ELSE /\ log' = Append(log, Record("root", "debug", "Discovered extensions", 0, names))
                /\ pc' = "loaded"
                /\ UNCHANGED exc
    /\ UNCHANGED <<world, i, installed_extensions, valid_extensions, extensions,
                   enabled_extensions, enabled_names, disabled_names, calls,
                   next_id, run, first>>

\* --------------------------------------------------- validate_extensions

\* ValidateOne with the "continue" after an ExtensionError missing: the extension
\* is logged as disabled and appended all the same.
ValidateOneKeepsUnsuitable(extension) ==
    LET ep == registry[extension.entry_point]
        validating == Record("mopidy.ext", "debug", "Validating extension",
                             extension.id, <<extension.ext_name>>)
        require == <<"require", extension.entry_point>>
        environment == <<"validate_environment", extension.id>>
        Result(keep, raised, made, logged) ==
            [keep |-> keep, exc |-> raised, calls |-> made, log |-> <<validating>> \o logged]
    IN  IF extension.ext_name # ep.name
        THEN Result(FALSE, "none", <<>>,
                    <<Record("mopidy.ext", "warning", "Disabled extension: name mismatch",
                             extension.id, <<ep.name, extension.ext_name>>)>>)
        ELSE IF ep.require = "DistributionNotFound"
        THEN Result(FALSE, "none", <<require>>,
                    <<Record("mopidy.ext", "info", "Disabled extension: dependency not found",
                             extension.id, <<extension.ext_name>>)>>)
        ELSE IF ep.require # "ok"
        THEN Result(FALSE, ep.require, <<require>>, <<>>)
        ELSE IF ep.env = "ExtensionError"
        THEN Result(TRUE, "none", <<require, environment>>,
                    <<Record("mopidy.ext", "info", "Disabled extension: environment",
                             extension.id, <<extension.ext_name>>)>>)
        ELSE IF ep.env # "ok"
        THEN Result(FALSE, ep.env, <<require, environment>>, <<>>)
        ELSE Result(TRUE, "none", <<require, environment>>, <<>>)

\* ValidateOne with the dependency check made before the identity check.
ValidateOneDependencyFirst(extension) ==
    LET ep == registry[extension.entry_point]
        validating == Record("mopidy.ext", "debug", "Validating extension",
                             extension.id, <<extension.ext_name>>)
        require == <<"require", extension.entry_point>>
        environment == <<"validate_environment", extension.id>>
        Result(keep, raised, made, logged) ==
            [keep |-> keep, exc |-> raised, calls |-> made, log |-> <<validating>> \o logged]
    IN  IF ep.require = "DistributionNotFound"
        THEN Result(FALSE, "none", <<require>>,
                    <<Record("mopidy.ext", "info", "Disabled extension: dependency not found",
                             extension.id, <<extension.ext_name>>)>>)
        ELSE IF ep.require # "ok"
        THEN Result(FALSE, ep.require, <<require>>, <<>>)
        ELSE IF extension.ext_name # ep.name
        THEN Result(FALSE, "none", <<require>>,
                    <<Record("mopidy.ext", "warning", "Disabled extension: name mismatch",
                             extension.id, <<ep.name, extension.ext_name>>)>>)
        ELSE IF ep.env = "ExtensionError"
        THEN Result(FALSE, "none", <<require, environment>>,
                    <<Record("mopidy.ext", "info", "Disabled extension: environment",
                             extension.id, <<extension.ext_name>>)>>)
        ELSE IF ep.env # "ok"
        THEN Result(FALSE, ep.env, <<require, environment>>, <<>>)
        ELSE Result(TRUE, "none", <<require, environment>>, <<>>)

\* The body of the loop for one extension: whether it is appended, the exception
\* that escapes, the calls made and the records logged.
ValidateOne(extension) ==
    LET ep == registry[extension.entry_point]
        validating == Record("mopidy.ext", "debug", "Validating extension",
                             extension.id, <<extension.ext_name>>)
        require == <<"require", extension.entry_point>>
        environment == <<"validate_environment", extension.id>>
        Result(keep, raised, made, logged) ==
            [keep |-> keep, exc |-> raised, calls |-> made, log |-> <<validating>> \o logged]
    IN  IF extension.ext_name # ep.name
        THEN Result(FALSE, "none", <<>>,
                    <<Record("mopidy.ext", "warning", "Disabled extension: name mismatch",
                             extension.id, <<ep.name, extension.ext_name>>)>>)
        ELSE IF ep.require = "DistributionNotFound"
        THEN Result(FALSE, "none", <<require>>,
                    <<Record("mopidy.ext", "info", "Disabled extension: dependency not found",
                             extension.id, <<extension.ext_name>>)>>)
        ELSE IF ep.require # "ok"
        THEN Result(FALSE, ep.require, <<require>>, <<>>)
        ELSE IF ep.env = "ExtensionError"
        THEN Result(FALSE, "none", <<require, environment>>,
                    <<Record("mopidy.ext", "info", "Disabled extension: environment",
                             extension.id, <<extension.ext_name>>)>>)
        ELSE IF ep.env # "ok"
        THEN Result(FALSE, ep.env, <<require, environment>>, <<>>)
        ELSE Result(TRUE, "none", <<require, environment>>, <<>>)

\* valid_extensions = []
ValidateBegin ==
    /\ pc = "loaded"
    /\ pc' = "validate"
    /\ valid_extensions' = <<>>
    /\ i' = 1
    /\ UNCHANGED <<world, installed_extensions, extensions, enabled_extensions,
                   enabled_names, disabled_names, exc, log, calls, next_id,
                   run, first>>

\* One iteration of "for extension in installed_extensions".
ValidateExtension ==
    /\ pc = "validate"
    /\ i <= Len(installed_extensions)
    /\ LET extension == installed_extensions[i]
           r == ValidateOne(extension)
       IN  /\ calls' = calls \o r.calls
           /\ log' = log \o r.log
           /\ IF r.exc # "none"
              THEN /\ exc' = r.exc
                   /\ pc' = "raised"
                   /\ UNCHANGED <<valid_extensions, i>>
              ELSE /\ valid_extensions' =
                          IF r.keep THEN Append(valid_extensions, extension)
                          ELSE valid_extensions
                   /\ i' = i + 1
                   /\ UNCHANGED <<pc, exc>>
    /\ UNCHANGED <<world, installed_extensions, extensions, enabled_extensions,
                   enabled_names, disabled_names, next_id, run, first>>

\* names = ...; logger.debug('Valid extensions: %s', ', '.join(names)); return
ValidateReturn ==
    /\ pc = "validate"
    /\ i > Len(installed_extensions)
    /\ LET names == ExtNamesOf(valid_extensions)
       IN  IF JoinRaises(names)
           THEN /\ exc' = "TypeError"
                /\ pc' = "raised"
                /\ UNCHANGED log
           ELSE /\ log' = Append(log, Record("mopidy.ext", "debug", "Valid extensions", 0, names))
                /\ pc' = "validated"
                /\ UNCHANGED exc
    /\ UNCHANGED <<world, i, installed_extensions, valid_extensions, extensions,
                   enabled_extensions, enabled_names, disabled_names, calls,
                   next_id, run, first>>

\* --------------------------------------------- filter_enabled_extensions

\* Literals config_lib.Boolean accepts as true and as false.
TrueValues == {"true"}

FalseValues == {"false"}

\* config_lib.Boolean().deserialize(value) raises on a value outside its vocabulary.
DeserializeRaises(value) == value \notin TrueValues \cup FalseValues

\* config_lib.Boolean().deserialize(value), for a value of the vocabulary.
Deserialize(value) == value \in TrueValues

\* raw_config[name]['enabled'] raises KeyError when the section or the key is missing.
LookupRaises(config, name) ==
    \/ name \notin DOMAIN config
    \/ "enabled" \notin DOMAIN config[name]

\* raw_config[name]['enabled'], when both exist.
Lookup(config, name) == config[name]["enabled"]

\* FilterOne with the test inverted.
FilterOneInverted(config, extension) ==
    IF LookupRaises(config, extension.ext_name) THEN "KeyError"
    ELSE IF DeserializeRaises(Lookup(config, extension.ext_name)) THEN "ValueError"
    ELSE IF Deserialize(Lookup(config, extension.ext_name)) THEN "disabled"
    ELSE "enabled"

\* FilterOne without the else branch: a disabled extension goes to no list.
FilterOneForgetsDisabled(config, extension) ==
    IF LookupRaises(config, extension.ext_name) THEN "KeyError"
    ELSE IF DeserializeRaises(Lookup(config, extension.ext_name)) THEN "ValueError"
    ELSE IF Deserialize(Lookup(config, extension.ext_name)) THEN "enabled"
    ELSE "skipped"

\* FilterOne with the lookup and coercion errors caught: the extension counts as disabled.
FilterOneLenient(config, extension) ==
    IF LookupRaises(config, extension.ext_name) THEN "disabled"
    ELSE IF DeserializeRaises(Lookup(config, extension.ext_name)) THEN "disabled"
    ELSE IF Deserialize(Lookup(config, extension.ext_name)) THEN "enabled"
    ELSE "disabled"

\* The body of the loop for one extension: the exception that escapes, or the
\* list the extension goes to.
FilterOne(config, extension) ==
    IF LookupRaises(config, extension.ext_name) THEN "KeyError"
    ELSE IF DeserializeRaises(Lookup(config, extension.ext_name)) THEN "ValueError"
    ELSE IF Deserialize(Lookup(config, extension.ext_name)) THEN "enabled"
    ELSE "disabled"

\* boolean = ...; enabled_extensions = []; enabled_names = []; disabled_names = []
FilterBegin ==
    /\ pc = "validated"
    /\ pc' = "filter"
    /\ extensions' = valid_extensions
    /\ enabled_extensions' = <<>>
    /\ enabled_names' = <<>>
    /\ disabled_names' = <<>>
    /\ i' = 1
    /\ UNCHANGED <<world, installed_extensions, valid_extensions, exc, log,
                   calls, next_id, run, first>>

\* One iteration of "for extension in extensions".
FilterExtension ==
    /\ pc = "filter"
    /\ i <= Len(extensions)
    /\ LET extension == extensions[i]
           r == FilterOne(raw_config, extension)
       IN  IF r \in {"KeyError", "ValueError"}
           THEN /\ exc' = r
                /\ pc' = "raised"
                /\ UNCHANGED <<enabled_extensions, enabled_names, disabled_names, i>>
           ELSE /\ enabled_extensions' =
                       IF r = "enabled" THEN Append(enabled_extensions, extension)
                       ELSE enabled_extensions
                /\ enabled_names' =
                       IF r = "enabled" THEN Append(enabled_names, extension.ext_name)
                       ELSE enabled_names
                /\ disabled_names' =
                       IF r = "disabled" THEN Append(disabled_names, extension.ext_name)
                       ELSE disabled_names
                /\ i' = i + 1
                /\ UNCHANGED <<pc, exc>>
    /\ UNCHANGED <<world, installed_extensions, valid_extensions, extensions,
                   log, calls, next_id, run, first>>

\* logging.info('Enabled extensions: ...'); logging.info('Disabled extensions: ...'); return
FilterReturn ==
    /\ pc = "filter"
    /\ i > Len(extensions)
    /\ IF JoinRaises(enabled_names) \/ JoinRaises(disabled_names)
       THEN /\ exc' = "TypeError"
            /\ pc' = "raised"
            /\ log' = IF JoinRaises(enabled_names) THEN log
                      ELSE Append(log, Record("root", "info", "Enabled extensions", 0,
                                              JoinOrNone(enabled_names)))
       ELSE /\ log' = log \o
                   <<Record("root", "info", "Enabled extensions", 0, JoinOrNone(enabled_names)),
                     Record("root", "info", "Disabled extensions", 0, JoinOrNone(disabled_names))>>
            /\ pc' = "filtered"
            /\ UNCHANGED exc
    /\ UNCHANGED <<world, i, installed_extensions, valid_extensions, extensions,
                   enabled_extensions, enabled_names, disabled_names, calls,
                   next_id, run, first>>

\* ------------------------------------------------------------ the pipeline

\* What a pass hands to its caller: the enabled names, or the exception.
Outcome ==
    IF pc = "raised" THEN <<"raised", exc>>
    ELSE <<"returned", ExtNamesOf(enabled_extensions)>>

\* The caller runs the pipeline a second time over the same registry and config.
Rerun ==
    /\ pc \in {"filtered", "raised"}
    /\ run = 1
    /\ first' = Outcome
    /\ run' = 2
    /\ pc' = "start"
    /\ exc' = "none"
    /\ UNCHANGED <<world, i, installed_extensions, valid_extensions, extensions,
                   enabled_extensions, enabled_names, disabled_names, log,
                   calls, next_id>>

\* State shared by every specification's initial condition.
InitLocals ==
    /\ i = 1
    /\ extensions = <<>>
    /\ enabled_extensions = <<>>
    /\ enabled_names = <<>>
    /\ disabled_names = <<>>
    /\ exc = "none"
    /\ log = <<>>
    /\ calls = <<>>
    /\ run = 1
    /\ first = <<>>

\* How many of the four things that can be wrong with an entry point are.
Faults(ep) ==
    Cardinality({f \in {"name", "factory", "require", "env"} :
        \/ f = "name" /\ ep.ext_name # ep.name
        \/ f = "factory" /\ ep.factory # "ok"
        \/ f = "require" /\ ep.require # "ok"
        \/ f = "env" /\ ep.env # "ok"})

\* Before the first pass of the whole pipeline: a registry of entry points with
\* at most one fault each (SpecLoad and SpecValidate cover their combinations),
\* and any raw configuration.
Init ==
    /\ registry \in SeqUpTo({ep \in EntryPoints : Faults(ep) <= 1}, MaxExt)
    /\ raw_config \in RawConfigs
    /\ pc = "start"
    /\ installed_extensions = <<>>
    /\ valid_extensions = <<>>
    /\ next_id = 1
    /\ InitLocals

Next ==
    \/ LoadBegin
    \/ LoadEntryPoint
    \/ LoadReturn
    \/ ValidateBegin
    \/ ValidateExtension
    \/ ValidateReturn
    \/ FilterBegin
    \/ FilterExtension
    \/ FilterReturn
    \/ Rerun

Spec == Init /\ [][Next]_vars

\* ------------------------------------------------- one function at a time

\* What load_extensions returns over a registry whose factories all work.
Loaded(reg) == [k \in 1..Len(reg) |-> [id |-> k, ext_name |-> reg[k].ext_name, entry_point |-> k]]

\* load_extensions called: any registry; what validate_environment would do is
\* not looked at here.
InitLoad ==
    /\ registry \in SeqUpTo({ep \in EntryPoints : ep.env = "ok"}, MaxExt)
    /\ raw_config = <<>>
    /\ pc = "start"
    /\ installed_extensions = <<>>
    /\ valid_extensions = <<>>
    /\ next_id = 1
    /\ InitLocals

NextLoad == LoadBegin \/ LoadEntryPoint \/ LoadReturn

SpecLoad == InitLoad /\ [][NextLoad]_vars

\* validate_extensions called on any list of instantiated extensions, each with
\* the entry point it came from attached.
InitValidate ==
    /\ registry \in SeqUpTo({ep \in EntryPoints : ep.factory = "ok"}, MaxExt)
    /\ raw_config = <<>>
    /\ pc = "loaded"
    /\ installed_extensions = Loaded(registry)
    /\ valid_extensions = <<>>
    /\ next_id = Len(registry) + 1
    /\ InitLocals

NextValidate == ValidateBegin \/ ValidateExtension \/ ValidateReturn

SpecValidate == InitValidate /\ [][NextValidate]_vars

\* filter_enabled_extensions called on any list of validated extensions, with
\* any raw configuration.
InitFilter ==
    /\ registry \in SeqUpTo({ep \in EntryPoints : Faults(ep) = 0}, MaxExt)
    /\ raw_config \in RawConfigs
    /\ pc = "validated"
    /\ installed_extensions = Loaded(registry)
    /\ valid_extensions = Loaded(registry)
    /\ next_id = Len(registry) + 1
    /\ InitLocals

NextFilter == FilterBegin \/ FilterExtension \/ FilterReturn

SpecFilter == InitFilter /\ [][NextFilter]_vars

\* ----------------------------------------------------------------- claims

\* The elements of a sequence.
Range(seq) == {seq[k] : k \in 1..Len(seq)}

\* How many times c was called.
CallCount(c) == Cardinality({n \in 1..Len(calls) : calls[n] = c})

\* The entry point an extension came from.
EntryPointOf(extension) == registry[extension.entry_point]

\* The three checks of the validator, as properties of the extension alone.
IdentityHolds(extension) == extension.ext_name = EntryPointOf(extension).name

DependencyHolds(extension) == EntryPointOf(extension).require # "DistributionNotFound"

EnvironmentHolds(extension) == EntryPointOf(extension).env # "ExtensionError"

PassesAllChecks(extension) ==
    IdentityHolds(extension) /\ DependencyHolds(extension) /\ EnvironmentHolds(extension)

\* No check of any extension raises an exception the validator does not catch.
OnlyCaughtOutcomes ==
    \A k \in 1..Len(registry) :
        /\ registry[k].require \in {"ok", "DistributionNotFound"}
        /\ registry[k].env \in {"ok", "ExtensionError"}

\* C1: validate_extensions returns exactly the subsequence of its input made of
\* the extensions that pass the identity, dependency and environment checks, in
\* input order; after each iteration the list holds that subsequence of the
\* extensions handled so far, so a dropped extension does not stop the later
\* ones; and when every check outcome is a pass or a caught failure the
\* function returns.
C1_ValidIsPassingSubsequence ==
    /\ pc \in {"validate", "validated"} =>
          valid_extensions =
              SelectSeq(SubSeq(installed_extensions, 1, i - 1), PassesAllChecks)
    /\ pc = "validated" => i = Len(installed_extensions) + 1
    /\ OnlyCaughtOutcomes => pc # "raised"

\* C1's case: a returned list that dropped the first extension and kept the second.
C1_Witness ==
    /\ pc = "validated"
    /\ Len(installed_extensions) = 2
    /\ ~PassesAllChecks(installed_extensions[1])
    /\ PassesAllChecks(installed_extensions[2])
    /\ Len(valid_extensions) = 1

\* Every input extension has a section holding an 'enabled' value of the
\* boolean vocabulary.
ConsistentConfig ==
    \A k \in 1..Len(valid_extensions) :
        /\ ~LookupRaises(raw_config, valid_extensions[k].ext_name)
        /\ ~DeserializeRaises(Lookup(raw_config, valid_extensions[k].ext_name))

\* The extension's 'enabled' value deserializes to true.
DeserializesToTrue(extension) == Deserialize(Lookup(raw_config, extension.ext_name))

\* C2: with a section and a valid boolean 'enabled' value for every input
\* extension, filter_enabled_extensions returns, and returns exactly the input
\* extensions whose value deserializes to true, in input order.
C2_EnabledIsTrueSubsequence ==
    ConsistentConfig =>
        /\ pc # "raised"
        /\ pc \in {"filter", "filtered"} =>
              enabled_extensions =
                  SelectSeq(SubSeq(extensions, 1, i - 1), DeserializesToTrue)
        /\ pc = "filtered" => i = Len(extensions) + 1

\* C2's case: two extensions filtered, the first disabled and the second enabled.
C2_Witness ==
    /\ pc = "filtered"
    /\ Len(extensions) = 2
    /\ ~DeserializesToTrue(extensions[1])
    /\ DeserializesToTrue(extensions[2])
    /\ Len(enabled_extensions) = 1

\* C3: when filter_enabled_extensions returns, the enabled and the disabled
\* names partition the input: together they are the input names, no name is in
\* both, every input extension is counted once, and the input list is still
\* the list the function was called with.
C3_NamesPartitionInput ==
    pc = "filtered" =>
        /\ Range(enabled_names) \cup Range(disabled_names) = Range(ExtNamesOf(extensions))
        /\ Range(enabled_names) \cap Range(disabled_names) = {}
        /\ Len(enabled_names) + Len(disabled_names) = Len(extensions)
        /\ extensions = Loaded(registry)
        /\ valid_extensions = Loaded(registry)

\* C3's case: a returned partition with a name on each side.
C3_Witness ==
    /\ pc = "filtered"
    /\ enabled_names # <<>>
    /\ disabled_names # <<>>

\* The extension reports another name than its entry point's.
Mismatch(ep) == ep.ext_name # ep.name

\* C4: an extension whose ext_name differs from its entry point's name, unset
\* names included, never makes the discover-then-validate pass raise, and is
\* absent from the validated list.
C4_MismatchIsNotACrash ==
    \A k \in 1..Len(registry) :
        Mismatch(registry[k]) =>
            /\ ~(pc = "raised" /\ exc = "TypeError")
            /\ pc = "validated" =>
                  \A n \in 1..Len(valid_extensions) : valid_extensions[n].entry_point # k

\* C5: the second pass over an unchanged registry and configuration ends as
\* the first did: the same enabled names in the same order, or the same exception.
C5_SecondPassSameOutcome ==
    (run = 2 /\ pc \in {"filtered", "raised"}) => Outcome = first

\* C5's case: a second pass that returned two enabled extensions.
C5_Witness ==
    /\ run = 2
    /\ pc = "filtered"
    /\ Len(enabled_extensions) = 2

\* C6: when every factory instantiates, load_extensions returns one new
\* extension per entry point, in enumeration order, the k-th carrying the k-th
\* entry point, whatever require() would say.
C6_LoadReturnsOnePerEntryPoint ==
    ((\A k \in 1..Len(registry) : registry[k].factory = "ok") /\ pc \notin {"start", "load"}) =>
        /\ pc = "loaded"
        /\ installed_extensions = Loaded(registry)

\* The first entry point whose factory fails.
FirstBroken ==
    CHOOSE k \in 1..Len(registry) :
        /\ registry[k].factory # "ok"
        /\ \A n \in 1..(k - 1) : registry[n].factory = "ok"

\* C7: when a factory fails, load_extensions never returns a list, loads no
\* entry point after the first broken one, and ends with that factory's
\* exception at that entry point.
C7_BrokenFactoryAborts ==
    (\E k \in 1..Len(registry) : registry[k].factory # "ok") =>
        /\ pc # "loaded"
        /\ \A n \in 1..Len(calls) : calls[n][2] <= FirstBroken
        /\ i <= FirstBroken
        /\ pc = "raised" =>
              /\ exc = registry[FirstBroken].factory
              /\ i = FirstBroken
              /\ CallCount(<<"load", FirstBroken>>) = 1

\* C7's case: the pass raised at a broken entry point that has one after it.
C7_Witness ==
    /\ pc = "raised"
    /\ exc = "ImportError"
    /\ i < Len(registry)

\* The section, key or value of the extension's name is missing or malformed.
BadConfig(extension) ==
    \/ LookupRaises(raw_config, extension.ext_name)
    \/ DeserializeRaises(Lookup(raw_config, extension.ext_name))

\* The summary records of filter_enabled_extensions.
SummaryRecords ==
    {n \in 1..Len(log) : log[n].event \in {"Enabled extensions", "Disabled extensions"}}

\* C8: when the configuration lacks the section, the key or a valid value for
\* some input extension, filter_enabled_extensions never returns and logs no
\* summary, puts no such extension on either list, and ends with the KeyError
\* or ValueError of the first such extension.
C8_BadConfigPropagates ==
    ~ConsistentConfig =>
        /\ pc # "filtered"
        /\ SummaryRecords = {}
        /\ \A k \in 1..Len(valid_extensions) :
              BadConfig(valid_extensions[k]) =>
                  /\ valid_extensions[k] \notin Range(enabled_extensions)
                  /\ valid_extensions[k].ext_name \notin
                         Range(enabled_names) \cup Range(disabled_names)
        /\ pc = "raised" =>
              /\ BadConfig(extensions[i])
              /\ \A k \in 1..(i - 1) : ~BadConfig(extensions[k])
              /\ exc = IF LookupRaises(raw_config, extensions[i].ext_name)
                       THEN "KeyError" ELSE "ValueError"

\* C8's case: the second extension's value is outside the vocabulary, after a
\* first extension was classified.
C8_Witness ==
    /\ pc = "raised"
    /\ exc = "ValueError"
    /\ i = 2
    /\ enabled_names # <<>>

\* The records that report a dropped extension.
DropEvents ==
    {"Disabled extension: name mismatch", "Disabled extension: dependency not found",
     "Disabled extension: environment"}

\* The drop records about one extension.
DropRecords(extension) ==
    {n \in 1..Len(log) : log[n].about = extension.id /\ log[n].event \in DropEvents}

\* The record the first failing check of an extension produces.
FirstViolation(extension) ==
    IF ~IdentityHolds(extension) THEN "Disabled extension: name mismatch"
    ELSE IF ~DependencyHolds(extension) THEN "Disabled extension: dependency not found"
    ELSE IF ~EnvironmentHolds(extension) THEN "Disabled extension: environment"
    ELSE "none"

\* C9: validate_extensions checks identity, then dependency, then environment,
\* and stops at the first failure: require() is called once for an extension
\* whose identity check passed and never otherwise, validate_environment() once
\* after a require() that succeeded and never otherwise, and a dropped extension
\* has exactly one drop record, that of the first check it fails.
C9_ChecksShortCircuitInOrder ==
    \A k \in 1..Len(installed_extensions) :
        LET extension == installed_extensions[k]
            reached == pc \in {"validate", "validated", "raised"} /\
                       (k < i \/ (pc = "raised" /\ k = i))
            require == <<"require", extension.entry_point>>
            environment == <<"validate_environment", extension.id>>
        IN  /\ CallCount(require) =
                  IF reached /\ IdentityHolds(extension) THEN 1 ELSE 0
            /\ CallCount(environment) =
                  IF reached /\ IdentityHolds(extension) /\
                     EntryPointOf(extension).require = "ok" THEN 1 ELSE 0
            /\ \A m, n \in 1..Len(calls) :
                  (calls[m] = environment /\ calls[n] = require) => n < m
            /\ (pc \in {"validate", "validated", "raised"} /\ k < i) =>
                  IF FirstViolation(extension) = "none"
                  THEN DropRecords(extension) = {}
                  ELSE /\ Cardinality(DropRecords(extension)) = 1
                       /\ \A n \in DropRecords(extension) :
                              log[n].event = FirstViolation(extension)

\* C9's case: the pass handled an extension failing all three checks and one
\* failing the dependency and the environment check.
C9_Witness ==
    /\ pc = "validated"
    /\ Len(installed_extensions) = 2
    /\ \E k \in 1..2 :
          /\ ~IdentityHolds(installed_extensions[k])
          /\ ~DependencyHolds(installed_extensions[k])
          /\ ~EnvironmentHolds(installed_extensions[k])
    /\ \E k \in 1..2 :
          /\ IdentityHolds(installed_extensions[k])
          /\ ~DependencyHolds(installed_extensions[k])
          /\ ~EnvironmentHolds(installed_extensions[k])

\* C10 as stated: a successful load_extensions pass over n entry points emits
\* n + 1 log records.
C10_OneRecordPerExtension ==
    pc = "loaded" => Len(log) = Len(registry) + 1

\* C10, amended: a successful load_extensions pass over n entry points changes
\* nothing but its own list and the log, and logs 2n + 1 records: for each
\* entry point, in order, one before loading it and one after instantiating
\* its extension, then one summary of all discovered names.
C10_TwoRecordsPerExtension ==
    pc = "loaded" =>
        /\ Len(log) = 2 * Len(registry) + 1
        /\ \A k \in 1..Len(registry) :
              /\ log[2 * k - 1].event = "Loading entry point"
              /\ log[2 * k - 1].about = k
              /\ log[2 * k].event = "Loaded extension"
              /\ log[2 * k].about = k
        /\ log[Len(log)].event = "Discovered extensions"
        /\ log[Len(log)].args = ExtNamesOf(installed_extensions)
        /\ valid_extensions = <<>>
        /\ extensions = <<>>
        /\ enabled_extensions = <<>>
        /\ enabled_names = <<>>
        /\ disabled_names = <<>>
        /\ exc = "none"

\* C10's case: a successful pass over two entry points.
C10_Witness ==
    /\ pc = "loaded"
    /\ Len(registry) = 2

====
